---- MODULE Spec2Model ----
(***************************************************************************)
(* Model of the gpt-gateway service: the /generate handler (memoized call  *)
(* to the generation provider, persisted in the sqlite table "entries"),   *)
(* the /code handler (lookup by device) and callOpenAI (provider adapter). *)
(* Two variants are modelled: main.go (no authentication) and the variant  *)
(* with authMiddleware.                                                    *)
(*                                                                         *)
(* Strings that are only compared and copied (device names, keywords,      *)
(* languages, prompts) are TLA+ strings.  Strings the code transforms (the *)
(* provider's texts, the raw response body, the stored output) are         *)
(* sequences of one-character strings, so that strings.TrimSpace is        *)
(* computed.                                                               *)
(***************************************************************************)
EXTENDS Integers, Sequences, FiniteSets, TLC

\* Bounds on the provider payloads explored for callOpenAI.
MaxItems == 2
MaxBlocks == 2

\* Index of the output item callOpenAI reads (Go, zero-based).
OutputIndex == 1
\* Index of the content block callOpenAI reads (Go, zero-based).
ContentIndex == 0

Devices == {"dev1", "dev2"}
Slots == {"h1", "h2"}
ApiKeys == {"", "s3cret", "wrong"}
Methods == {"POST", "GET"}
Texts == { <<" ", "a", "\n">>, <<"b">> }
Whitespace == {" ", "\t", "\n", "\r"}

\* variant        which main() runs: "plain" (main.go) or "auth" (with authMiddleware)
\* serviceAPIKey  the SERVICE_API_KEY environment value (unused by "plain")
\* entries        the rows of table entries
\* inflight       per handler goroutine: idle, or waiting in callOpenAI
\* response       the last HTTP response written, with what its handler did
\* probe          a callOpenAI invocation taken in isolation
VARIABLES variant, serviceAPIKey, entries, inflight, response, probe

vars == <<variant, serviceAPIKey, entries, inflight, response, probe>>

----------------------------------------------------------------------------
(* Requests                                                                *)

GenerateRequest(d, k, l, p, f) ==
  [device_name |-> d, keyword |-> k, language |-> l, prompt |-> p, refresh |-> f]

\* Well-formed request bodies.  dev1 is asked for with two payloads that
\* differ in every caller-supplied field, dev2 (the other device) with one.
CompleteRequests ==
  { GenerateRequest(d, "led", "python", "blink an LED", f) : d \in Devices, f \in BOOLEAN }
    \cup { GenerateRequest("dev1", "fan", "go", "spin a fan", f) : f \in BOOLEAN }

RequestFields == {"device_name", "keyword", "language", "prompt"}

\* A JSON body in which one field is missing decodes to the empty string.
MissingField(req, f) == [req EXCEPT ![f] = ""]

IncompleteRequests ==
  { MissingField(GenerateRequest("dev1", "led", "python", "blink an LED", r), f) :
      r \in BOOLEAN, f \in RequestFields }

Requests == CompleteRequests \cup IncompleteRequests

NoRequest == GenerateRequest("", "", "", "", FALSE)

----------------------------------------------------------------------------
(* Entries table                                                           *)

CodeResponse(d, k, l, p, o) ==
  [device_name |-> d, keyword |-> k, language |-> l, prompt |-> p, output |-> o]

NoBody == CodeResponse("", "", "", "", <<>>)

Rows(rows, d) == {r \in rows : r.device_name = d}

\* An insert that leaves an existing row of the device as it is.
UpsertKeepingExisting(rows, e) ==
  IF Rows(rows, e.device_name) # {} THEN rows ELSE rows \cup {e}

\* An upsert whose DO UPDATE sets prompt and output only.
UpsertKeepingMetadata(rows, e) ==
  IF Rows(rows, e.device_name) = {} THEN rows \cup {e}
  ELSE {r \in rows : r.device_name # e.device_name}
         \cup { [r EXCEPT !.prompt = e.prompt, !.output = e.output] :
                  r \in Rows(rows, e.device_name) }

\* An upsert whose DO UPDATE sets output only.
UpsertOutputOnly(rows, e) ==
  IF Rows(rows, e.device_name) = {} THEN rows \cup {e}
  ELSE {r \in rows : r.device_name # e.device_name}
         \cup { [r EXCEPT !.output = e.output] : r \in Rows(rows, e.device_name) }

\* An insert into a table without the primary key.
UpsertAddingRow(rows, e) == rows \cup {e}

\* A replacement that is not restricted to the device's row.
UpsertReplacingTable(rows, e) == {e}

\* INSERT ... ON CONFLICT(device_name) DO UPDATE SET every other column.
Upsert(rows, e) == {r \in rows : r.device_name # e.device_name} \cup {e}

\* An Exec whose error is dropped.
ExecUpsertSwallowingFailure(rows, e, fault) ==
  IF fault THEN [err |-> FALSE, rows |-> rows]
  ELSE [err |-> FALSE, rows |-> Upsert(rows, e)]

\* db.Exec of the upsert: a failed statement changes nothing.
ExecUpsert(rows, e, fault) ==
  IF fault THEN [err |-> TRUE, rows |-> rows]
  ELSE [err |-> FALSE, rows |-> Upsert(rows, e)]

\* QueryRow("SELECT output ...").Scan(&output): on any error output keeps
\* its zero value.
QueryOutput(rows, d, fault) ==
  IF fault THEN [err |-> "error", output |-> <<>>]
  ELSE IF Rows(rows, d) = {} THEN [err |-> "ErrNoRows", output |-> <<>>]
  ELSE [err |-> "nil", output |-> (CHOOSE r \in Rows(rows, d) : TRUE).output]

\* A lookup that selects the output column only, like the one of /generate.
QueryEntryOutputOnly(rows, d, fault) ==
  IF fault THEN [err |-> "error", row |-> NoBody]
  ELSE IF Rows(rows, d) = {} THEN [err |-> "ErrNoRows", row |-> NoBody]
  ELSE [err |-> "nil",
        row |-> CodeResponse(d, "", "", "", (CHOOSE r \in Rows(rows, d) : TRUE).output)]

\* QueryRow("SELECT device_name, keyword, language, prompt, output ...").Scan
QueryEntry(rows, d, fault) ==
  IF fault THEN [err |-> "error", row |-> NoBody]
  ELSE IF Rows(rows, d) = {} THEN [err |-> "ErrNoRows", row |-> NoBody]
  ELSE [err |-> "nil", row |-> CHOOSE r \in Rows(rows, d) : TRUE]

----------------------------------------------------------------------------
(* Provider responses and callOpenAI                                       *)

RECURSIVE TrimLeft(_)
TrimLeft(s) ==
  IF s # <<>> /\ Head(s) \in Whitespace THEN TrimLeft(Tail(s)) ELSE s

RECURSIVE TrimRight(_)
TrimRight(s) ==
  IF s # <<>> /\ s[Len(s)] \in Whitespace
  THEN TrimRight(SubSeq(s, 1, Len(s) - 1))
  ELSE s

\* strings.TrimSpace
TrimSpace(s) == TrimRight(TrimLeft(s))

\* The bytes of a JSON body carrying the given output items.
RECURSIVE RenderBlocks(_)
RenderBlocks(blocks) ==
  IF blocks = <<>> THEN <<>>
  ELSE <<"'">> \o Head(blocks) \o <<"'">> \o RenderBlocks(Tail(blocks))

RECURSIVE RenderItems(_)
RenderItems(items) ==
  IF items = <<>> THEN <<>>
  ELSE <<"[">> \o RenderBlocks(Head(items)) \o <<"]">> \o RenderItems(Tail(items))

RenderBody(items) == <<"{">> \o RenderItems(items) \o <<"}">>

SeqsUpTo(S, n) == UNION { [1..k -> S] : k \in 0..n }

\* OpenAIResponse values: sequences of output items, each a sequence of
\* content blocks, each a text.
Items == SeqsUpTo(Texts, MaxBlocks)
Payloads == SeqsUpTo(Items, MaxItems)

\* What client.Do and io.ReadAll hand to callOpenAI: a transport error, or
\* a status and a body; decodes tells whether json.Unmarshal accepts the
\* body, output is the decoded OpenAIResponse.Output.
ProviderResponse(te, st, dec, out, raw) ==
  [transportErr |-> te, status |-> st, decodes |-> dec, output |-> out, raw |-> raw]

TransportError == ProviderResponse(TRUE, 0, FALSE, <<>>, <<>>)
NoCall == ProviderResponse(FALSE, 0, FALSE, <<>>, <<>>)
Structured(st, items) == ProviderResponse(FALSE, st, TRUE, items, RenderBody(items))
\* A body that is not JSON of the expected shape (an HTML error page).
Malformed(st) == ProviderResponse(FALSE, st, FALSE, <<>>, <<" ", "<", "h", ">", " ">>)
\* The provider's error object: valid JSON without an "output" member.
ErrorObject(st) == ProviderResponse(FALSE, st, TRUE, <<>>, <<"{", "e", "r", "r", "}">>)

Statuses == {200, 500}

ProviderResponses ==
  {TransportError}
    \cup { Structured(st, items) : st \in Statuses, items \in Payloads }
    \cup { Malformed(st) : st \in Statuses }
    \cup { ErrorObject(st) : st \in Statuses }

\* The provider responses the handlers are run against.
HandlerResponses ==
  { TransportError,
    ErrorObject(500),
    Malformed(200),
    Structured(200, << <<(<<"b">>)>> >>),
    Structured(200, << <<(<<"b">>)>>, <<(<<" ", "a", "\n">>)>> >>) }

GenResult(k, o) == [kind |-> k, output |-> o]

\* callOpenAI going on after a failed client.Do as if it had an empty body.
callOpenAIIgnoringTransportError(r) ==
  IF r.decodes /\ Len(r.output) > 0
  THEN IF OutputIndex + 1 > Len(r.output)
       THEN GenResult("panic", <<>>)
       ELSE IF Len(r.output[OutputIndex + 1]) > 0
            THEN GenResult("ok", TrimSpace(r.output[OutputIndex + 1][ContentIndex + 1]))
            ELSE GenResult("ok", r.raw)
  ELSE GenResult("ok", r.raw)

\* callOpenAI returning the json.Unmarshal error instead of the raw body.
callOpenAIFailingOnDecodeError(r) ==
  IF r.transportErr \/ ~r.decodes THEN GenResult("error", <<>>)
  ELSE IF Len(r.output) > 0
       THEN IF OutputIndex + 1 > Len(r.output)
            THEN GenResult("panic", <<>>)
            ELSE IF Len(r.output[OutputIndex + 1]) > 0
                 THEN GenResult("ok", TrimSpace(r.output[OutputIndex + 1][ContentIndex + 1]))
                 ELSE GenResult("ok", r.raw)
       ELSE GenResult("ok", r.raw)

callOpenAI(r) ==
  IF r.transportErr THEN GenResult("error", <<>>)
  ELSE IF r.decodes /\ Len(r.output) > 0
       THEN IF OutputIndex + 1 > Len(r.output)
            THEN GenResult("panic", <<>>)
            ELSE IF Len(r.output[OutputIndex + 1]) > 0
                 THEN GenResult("ok", TrimSpace(r.output[OutputIndex + 1][ContentIndex + 1]))
                 ELSE GenResult("ok", r.raw)
       ELSE GenResult("ok", r.raw)

----------------------------------------------------------------------------
(* HTTP handlers                                                           *)

\* main() of the "auth" variant exits at start when the key is not set.
Serving == variant = "plain" \/ serviceAPIKey # ""

\* authMiddleware: TRUE when the request goes on to the wrapped handler.
authMiddleware(key) == variant = "auth" => key = serviceAPIKey

\* A required-field check that forgets keyword.
HasRequiredFieldsButKeyword(req) ==
  ~(req.device_name = "" \/ req.language = "" \/ req.prompt = "")

\* The required-field check of the /generate handler.
HasRequiredFields(req) ==
  ~(req.device_name = "" \/ req.keyword = "" \/ req.language = "" \/ req.prompt = "")

\* A miss test that takes every read error for a miss.
ShouldGenerateOnAnyError(err, refresh) == err # "nil" \/ refresh

\* if err == sql.ErrNoRows || req.Refresh
ShouldGenerate(err, refresh) == err = "ErrNoRows" \/ refresh

\* The CodeResponse the /generate handler encodes.
GenerateResponse(req, output) ==
  CodeResponse(req.device_name, req.keyword, req.language, req.prompt, output)

\* The row the /generate handler upserts.
NewEntry(req, output) ==
  CodeResponse(req.device_name, req.keyword, req.language, req.prompt, output)

Idle == [pc |-> "idle", req |-> NoRequest, key |-> "", cancelled |-> FALSE]
Calling(req, key) == [pc |-> "calling", req |-> req, key |-> key, cancelled |-> FALSE]

\* An answer together with what its handler did: the rows of the device
\* just before the answer (prior), the outcome of the store read when the
\* handler answers straight from it (lookup, "" otherwise), the numbers of
\* store reads, provider calls and store writes it made, and the provider's
\* response; key is the X-API-Key header its request came with.
Reply(h, req, st, msg, body, prior, lk, nr, ng, nw, p) ==
  [handler |-> h, req |-> req, status |-> st, msg |-> msg, body |-> body,
   prior |-> prior, lookup |-> lk,
   reads |-> nr, gens |-> ng, writes |-> nw, provider |-> p, key |-> ""]

WithKey(r, key) == [r EXCEPT !.key = key]

Rejected(h, req, st, msg) == Reply(h, req, st, msg, NoBody, {}, "", 0, 0, 0, NoCall)

NoResponse == Rejected("none", NoRequest, 0, "")

HttpRequest(m, k, j, req) == [method |-> m, key |-> k, json |-> j, req |-> req]

\* Inbound /generate requests: every request body under the right key, and
\* one request for each way of failing before the body is looked at.
HttpGenerate ==
  { HttpRequest("POST", "s3cret", TRUE, req) : req \in Requests }
    \cup { HttpRequest("POST", k, TRUE, GenerateRequest("dev1", "led", "python", "blink an LED", TRUE)) :
             k \in ApiKeys }
    \cup { HttpRequest(m, "s3cret", j, GenerateRequest("dev1", "led", "python", "blink an LED", TRUE)) :
             m \in Methods, j \in BOOLEAN }

\* /generate up to the point where the handler either answers or enters
\* callOpenAI.
generateHandler(i, h, readFault) ==
  /\ Serving
  /\ inflight[i].pc = "idle"
  /\ LET req == h.req
          q == QueryOutput(entries, req.device_name, readFault)
          Answer(r) == /\ response' = WithKey(r, h.key)
                       /\ UNCHANGED inflight
     IN IF ~authMiddleware(h.key)
        THEN Answer(Rejected("generate", NoRequest, 401, "Chave de API invalida"))
        ELSE IF h.method # "POST"
        THEN Answer(Rejected("generate", NoRequest, 405, "Metodo nao permitido"))
        ELSE IF ~h.json
        THEN Answer(Rejected("generate", NoRequest, 400, "JSON invalido"))
        ELSE IF ~HasRequiredFields(req)
        THEN Answer(Rejected("generate", req, 400, "obrigatorios"))
        ELSE IF ShouldGenerate(q.err, req.refresh)
        THEN /\ inflight' = [inflight EXCEPT ![i] = Calling(req, h.key)]
             /\ UNCHANGED response
        ELSE Answer(Reply("generate", req, 200, "", GenerateResponse(req, q.output),
                          Rows(entries, req.device_name), q.err, 1, 0, 0, NoCall))
  /\ UNCHANGED <<variant, serviceAPIKey, entries, probe>>

\* callOpenAI returns to the /generate handler, which persists and answers.
generateReturn(i, p, writeFault) ==
  /\ inflight[i].pc = "calling"
  /\ LET req == inflight[i].req
          key == inflight[i].key
          prior == Rows(entries, req.device_name)
          g == callOpenAI(p)
          w == ExecUpsert(entries, NewEntry(req, g.output), writeFault)
     IN IF g.kind = "panic"
        THEN \* net/http recovers the panic and drops the connection
             /\ response' = WithKey(Reply("generate", req, 0, "aborted", NoBody, prior, "", 1, 1, 0, p), key)
             /\ UNCHANGED entries
        ELSE IF g.kind = "error"
        THEN /\ response' = WithKey(Reply("generate", req, 500, "Erro OpenAI", NoBody, prior, "", 1, 1, 0, p), key)
             /\ UNCHANGED entries
        ELSE IF w.err
        THEN /\ response' = WithKey(Reply("generate", req, 500, "Erro ao salvar no banco", NoBody, prior, "", 1, 1, 1, p), key)
             /\ entries' = w.rows
        ELSE /\ response' = WithKey(Reply("generate", req, 200, "", GenerateResponse(req, g.output), prior, "", 1, 1, 1, p), key)
             /\ entries' = w.rows
  /\ inflight' = [inflight EXCEPT ![i] = Idle]
  /\ UNCHANGED <<variant, serviceAPIKey, probe>>

\* The client of a request waiting in callOpenAI goes away.
clientCancel(i) ==
  /\ inflight[i].pc = "calling"
  /\ ~inflight[i].cancelled
  /\ inflight' = [inflight EXCEPT ![i].cancelled = TRUE]
  /\ UNCHANGED <<variant, serviceAPIKey, entries, response, probe>>

HttpCode ==
  { [key |-> "s3cret", device |-> d] : d \in Devices \cup {""} }
    \cup { [key |-> k, device |-> "dev1"] : k \in ApiKeys }

\* /code
codeHandler(h, readFault) ==
  /\ Serving
  /\ LET q == QueryEntry(entries, h.device, readFault)
          dreq == GenerateRequest(h.device, "", "", "", FALSE)
     IN response' = WithKey(
          IF ~authMiddleware(h.key)
          THEN Rejected("code", NoRequest, 401, "Chave de API invalida")
          ELSE IF h.device = ""
          THEN Rejected("code", dreq, 400, "device e obrigatorio")
          ELSE IF q.err # "nil"
          THEN Reply("code", dreq, 404, "device nao encontrado", NoBody,
                     Rows(entries, h.device), q.err, 1, 0, 0, NoCall)
          ELSE Reply("code", dreq, 200, "", q.row, Rows(entries, h.device), q.err, 1, 0, 0, NoCall),
          h.key)
  /\ UNCHANGED <<variant, serviceAPIKey, entries, inflight, probe>>

NoProbe == [called |-> FALSE, response |-> NoCall, result |-> GenResult("none", <<>>)]

Init ==
  /\ variant \in {"plain", "auth"}
  /\ serviceAPIKey \in (IF variant = "auth" THEN {"", "s3cret"} ELSE {""})
  /\ entries = {}
  /\ inflight = [i \in Slots |-> Idle]
  /\ response = NoResponse
  /\ probe = NoProbe

Next ==
  \/ \E i \in Slots, h \in HttpGenerate, rf \in BOOLEAN : generateHandler(i, h, rf)
  \/ \E i \in Slots, p \in HandlerResponses, wf \in BOOLEAN : generateReturn(i, p, wf)
  \/ \E h \in HttpCode, rf \in BOOLEAN : codeHandler(h, rf)

Spec == Init /\ [][Next]_vars

\* The same service with clients that may go away during callOpenAI.
NextCancel ==
  \/ Next
  \/ \E i \in Slots : clientCancel(i)

SpecCancel == Init /\ [][NextCancel]_vars

----------------------------------------------------------------------------
(* callOpenAI on its own, over every provider response within the bounds   *)

InitAdapter ==
  /\ variant = "plain"
  /\ serviceAPIKey = ""
  /\ entries = {}
  /\ inflight = [i \in Slots |-> Idle]
  /\ response = NoResponse
  /\ probe \in { [called |-> FALSE, response |-> r, result |-> GenResult("none", <<>>)] :
                  r \in ProviderResponses }

invokeCallOpenAI ==
  /\ ~probe.called
  /\ probe' = [probe EXCEPT !.called = TRUE, !.result = callOpenAI(probe.response)]
  /\ UNCHANGED <<variant, serviceAPIKey, entries, inflight, response>>

NextAdapter == invokeCallOpenAI

SpecAdapter == InitAdapter /\ [][NextAdapter]_vars

----------------------------------------------------------------------------
(* Properties.  response is the last answer written and entries changes    *)
(* only in a step that also writes an answer, so in every state entries is *)
(* the table as the handler of response left it and response.prior is the  *)
(* device's rows as that handler found them.                               *)

\* One of the four required fields of a request (or columns of a row) is
\* the empty string.
HasEmptyField(req) == \E f \in RequestFields : req[f] = ""

\* The answer is to a decoded /generate request with no empty field.
ValidGenerate(r) == r.handler = "generate" /\ r.req # NoRequest /\ ~HasEmptyField(r.req)

\* The last answer was written without entering callOpenAI.
Direct(r) == r.gens = 0

SaveFailed(r) == r.status = 500 /\ r.msg = "Erro ao salvar no banco"

StoredRows(r) == Rows(entries, r.req.device_name)

\* The Entry a request and an output make up.
EntryOf(req, output) ==
  [device_name |-> req.device_name, keyword |-> req.keyword,
   language |-> req.language, prompt |-> req.prompt, output |-> output]

\* C1: a valid request with refresh=false on a device that has a stored
\* Entry is answered with the stored Entry, equal in all five fields (stated
\* here for the answers whose store read succeeded).
C1_HitReturnsStoredEntry ==
  LET r == response
  IN (ValidGenerate(r) /\ ~r.req.refresh /\ Direct(r) /\ r.prior # {} /\ r.lookup = "nil")
       => r.status = 200 /\ r.body \in r.prior

\* C2: a valid request with refresh=false on a device that has a stored
\* Entry makes no provider call and no store write, and the output it
\* returns is the stored output.
C2_HitServesStoredOutput ==
  LET r == response
  IN (ValidGenerate(r) /\ ~r.req.refresh /\ Direct(r) /\ r.prior # {})
       => /\ r.status = 200
          /\ r.gens = 0 /\ r.writes = 0
          /\ StoredRows(r) = r.prior
          /\ \E e \in r.prior : r.body.output = e.output

\* C3: a valid request with refresh=false on a device that has no stored
\* Entry calls the provider exactly once and, the call and the store write
\* not failing, stores and returns the Entry made of the request's fields
\* and the generated output.
C3_MissGeneratesOnceAndStores ==
  LET r == response
  IN (ValidGenerate(r) /\ ~r.req.refresh /\ r.prior = {})
       => /\ r.gens = 1
          /\ (~r.provider.transportErr /\ ~SaveFailed(r))
               => /\ r.status = 200
                  /\ r.body = EntryOf(r.req, r.body.output)
                  /\ StoredRows(r) = {r.body}

\* C4: a valid request with refresh=true always calls the provider, and
\* after a successful answer the device's only row is the new Entry: the
\* request's keyword, language and prompt and the generated output.
C4_RefreshReplacesEntry ==
  LET r == response
  IN (ValidGenerate(r) /\ r.req.refresh)
       => /\ r.gens = 1
          /\ r.status = 200
               => /\ r.writes = 1
                  /\ r.body = EntryOf(r.req, callOpenAI(r.provider).output)
                  /\ StoredRows(r) = {r.body}

C4_Witness ==
  LET r == response
  IN /\ ValidGenerate(r) /\ r.req.refresh /\ r.status = 200
     /\ StoredRows(r) = {r.body}
     /\ \E old \in r.prior : /\ old.keyword # r.body.keyword
                             /\ old.language # r.body.language
                             /\ old.prompt # r.body.prompt
                             /\ old.output # r.body.output

\* C5: a /generate request with an empty device_name, keyword, language or
\* prompt is answered 400 without a store read, a store write or a provider
\* call, and the table is left as it was.
C5_Rejected(r) ==
  r.handler = "generate" /\ r.req # NoRequest /\ HasEmptyField(r.req)

C5_InvalidRequestRejected ==
  /\ [](C5_Rejected(response)
          => /\ response.status = 400
             /\ response.reads = 0 /\ response.gens = 0 /\ response.writes = 0)
  /\ [](\A i \in Slots : inflight[i].pc = "calling" => ~HasEmptyField(inflight[i].req))
  /\ [](\A e \in entries : ~HasEmptyField(e))
  /\ [][(C5_Rejected(response') /\ inflight' = inflight) => entries' = entries]_vars

C5_Witness ==
  /\ C5_Rejected(response)
  /\ response.req.keyword = "" /\ response.req.device_name = "dev1"
  /\ response.status = 400
  /\ entries # {}

\* Slot i's callOpenAI returned in this step.
Returned(i) == inflight[i].pc = "calling" /\ inflight'[i].pc = "idle"

\* C6: when callOpenAI returns an error the handler answers with the
\* failure and writes nothing: the table is the same before and after.
C6_GenerationFailureLeavesStore ==
  /\ [](LET r == response
        IN (r.handler = "generate" /\ r.gens = 1 /\ r.provider.transportErr)
             => /\ r.status = 500 /\ r.msg = "Erro OpenAI"
                /\ r.writes = 0
                /\ StoredRows(r) = r.prior)
  /\ [][\A i \in Slots : (Returned(i) /\ response'.provider.transportErr)
                             => entries' = entries]_vars

C6_Witness ==
  LET r == response
  IN /\ r.handler = "generate" /\ r.gens = 1 /\ r.provider.transportErr
     /\ r.status = 500
     /\ r.req.refresh
     /\ r.prior # {} /\ StoredRows(r) = r.prior

\* C7: a non-2xx answer of the provider is surfaced as an upstream failure:
\* its body is neither returned as a successful result nor written.
C7_Non2xxIsUpstreamFailure ==
  LET r == response
  IN (r.handler = "generate" /\ r.gens = 1 /\ ~r.provider.transportErr
        /\ r.provider.status \notin 200..299)
       => /\ r.status # 200
          /\ r.writes = 0
          /\ StoredRows(r) = r.prior

\* C10: when the provider's body does not decode, a request on the
\* generation path whose store write does not fail is answered 200 with the
\* raw body as output, and the Entry with that output is the device's row.
C10_MalformedBodyFallsBackToRaw ==
  LET r == response
  IN (r.handler = "generate" /\ r.gens = 1 /\ ~r.provider.transportErr
        /\ ~r.provider.decodes /\ ~SaveFailed(r))
       => /\ r.status = 200
          /\ r.body = EntryOf(r.req, r.provider.raw)
          /\ StoredRows(r) = {r.body}

C10_Witness ==
  LET r == response
  IN /\ r.handler = "generate" /\ r.gens = 1
     /\ r.provider = Malformed(200)
     /\ r.status = 200
     /\ r.body.output = Malformed(200).raw
     /\ r.body \in entries

\* C11: a store read that fails with an error other than "no rows" is
\* answered as a storage failure, by /code and by /generate: never as
\* not-found and never as a successful result.
C11_ReadFailureIsStorageError ==
  LET r == response
  IN r.lookup = "error" => r.status = 500

\* The answer is a successful /generate answer that generated and stored.
GeneratedAndStored(r) ==
  r.handler = "generate" /\ r.gens = 1 /\ r.writes = 1 /\ r.status = 200

\* The answer is a /code answer whose store read did not fail.
Fetched(r) == r.handler = "code" /\ r.reads = 1 /\ r.lookup # "error"

\* C12: a /code for the device of the /generate that was the last to answer,
\* having generated and stored an Entry, returns (its store read not
\* failing) the Entry that /generate returned, equal in all five fields;
\* a /code for a device without a row answers 404.
C12_FetchRoundTrip ==
  /\ [][(GeneratedAndStored(response) /\ Fetched(response')
          /\ response'.req.device_name = response.req.device_name)
         => response'.status = 200 /\ response'.body = response.body]_vars
  /\ []((Fetched(response) /\ response.prior = {})
         => response.status = 404 /\ response.body = NoBody)

C12_Witness ==
  LET r == response
  IN /\ Fetched(r) /\ r.status = 200
     /\ r.body.device_name = "dev1" /\ r.body.prompt = "spin a fan"
     /\ r.body.output = <<"a">>
     /\ r.body \in entries
     /\ Rows(entries, "dev2") = {}

\* The rows of device d change in this step.
RowsChange(d) == Rows(entries', d) # Rows(entries, d)

\* Slot i's /generate for device d ends in this step with a 200 answer.
Stores(i, d) ==
  Returned(i) /\ inflight[i].req.device_name = d /\ response'.status = 200

\* C13: with resolves for one device running concurrently, the device's row
\* is always the complete Entry of a single resolve, the last one to write:
\* every successful write leaves exactly the writer's five values, nothing
\* else changes the row, and a reader is answered from one whole row.
C13_LastWriterWinsWhole ==
  /\ [][\A d \in Devices :
          /\ RowsChange(d) => \E i \in Slots : Stores(i, d)
          /\ \A i \in Slots :
               Stores(i, d)
                 => Rows(entries', d) = {EntryOf(inflight[i].req, response'.body.output)}]_vars
  /\ []((Fetched(response) /\ response.status = 200)
          => response.body \in response.prior /\ StoredRows(response) = response.prior)

C13_Witness ==
  LET r == response
  IN /\ GeneratedAndStored(r) /\ ~r.req.refresh
     /\ r.prior # {} /\ r.prior # {r.body}
     /\ StoredRows(r) = {r.body}

\* C14: a /generate whose client went away while callOpenAI was in flight
\* writes nothing to the table afterwards.
C14_CancelledRequestDoesNotWrite ==
  [][\A i \in Slots :
       (Returned(i) /\ inflight[i].cancelled)
         => entries' = entries /\ response'.writes = 0]_vars

\* C16: a /generate for one device, successful or not, leaves the rows of
\* every other device as they are, and its answer is made of its own
\* request, its own device's row and its own provider response.
C16_OtherDevicesUntouched ==
  /\ [][/\ \A i \in Slots :
            Returned(i)
              => \A d \in Devices \ {inflight[i].req.device_name} : ~RowsChange(d)
        /\ (\A j \in Slots : ~Returned(j)) => entries' = entries]_vars
  /\ [](LET r == response
        IN /\ (ValidGenerate(r) /\ Direct(r))
                => \/ r.lookup = "error" /\ r.body = EntryOf(r.req, <<>>)
                   \/ r.lookup = "nil"
                        /\ \E e \in Rows(entries, r.req.device_name) :
                              r.body = EntryOf(r.req, e.output)
           /\ (ValidGenerate(r) /\ ~Direct(r) /\ r.status = 200)
                => r.body = EntryOf(r.req, callOpenAI(r.provider).output))

C16_Witness ==
  LET r == response
  IN /\ GeneratedAndStored(r) /\ r.req.device_name = "dev1"
     /\ Rows(entries, "dev2") # {}
     /\ \E i \in Slots : inflight[i].pc = "calling" /\ inflight[i].req.device_name = "dev2"

\* C17 as stated: no /generate with refresh=false ever replaces an Entry
\* that is present.
C17_NoRefreshFalseReplaces ==
  LET r == response
  IN (GeneratedAndStored(r) /\ ~r.req.refresh) => r.prior = {}

\* C17 as amended: a /generate with refresh=false enters callOpenAI only
\* when its lookup found no row for the device, and a device's row changes
\* only when a /generate that entered callOpenAI for that device stores.
C17_RefreshFalseGeneratesOnlyOnMiss ==
  [][/\ \A i \in Slots :
          (inflight[i].pc = "idle" /\ inflight'[i].pc = "calling"
             /\ ~inflight'[i].req.refresh)
            => Rows(entries, inflight'[i].req.device_name) = {}
     /\ \A d \in Devices : RowsChange(d) => \E i \in Slots : Stores(i, d)]_vars

C17_Witness ==
  LET r == response
  IN /\ ValidGenerate(r) /\ ~r.req.refresh /\ Direct(r)
     /\ r.status = 200 /\ r.lookup = "nil"
     /\ r.prior # {} /\ StoredRows(r) = r.prior
     /\ \E i \in Slots : /\ inflight[i].pc = "calling"
                          /\ inflight[i].req.device_name = r.req.device_name

\* C18: whenever a device's row changes, its new prompt is the prompt the
\* writer called callOpenAI with and its new output is what that call
\* returned.
C18_OutputPairedWithItsPrompt ==
  [][\A d \in Devices :
       RowsChange(d)
         => \E i \in Slots :
              /\ Stores(i, d)
              /\ callOpenAI(response'.provider).kind = "ok"
              /\ \A e \in Rows(entries', d) :
                    /\ e.prompt = inflight[i].req.prompt
                    /\ e.output = callOpenAI(response'.provider).output]_vars

C18_Witness ==
  LET r == response
  IN /\ GeneratedAndStored(r) /\ r.req.refresh
     /\ \E old \in r.prior : old.prompt # r.body.prompt
     /\ \E e \in StoredRows(r) : e.prompt = r.req.prompt /\ e.output = <<"a">>
     /\ \E i \in Slots : /\ inflight[i].pc = "calling"
                          /\ inflight[i].req.device_name = r.req.device_name
                          /\ inflight[i].req.prompt # r.req.prompt

\* C19: a device that has a row has one in every later state, and no
\* device ever has more than one row.
C19_EntriesPersistOnePerDevice ==
  /\ [](\A d \in Devices : Cardinality(Rows(entries, d)) <= 1)
  /\ [][\A d \in Devices : Rows(entries, d) # {} => Rows(entries', d) # {}]_vars

C19_Witness ==
  LET r == response
  IN /\ SaveFailed(r)
     /\ r.prior # {} /\ StoredRows(r) = r.prior
     /\ \A d \in Devices : Cardinality(Rows(entries, d)) = 1

\* C20: a /generate whose callOpenAI succeeded either answers 200 with its
\* Entry stored, or answers the save failure without the generated output,
\* after one provider call and one write attempt, with the table unchanged.
C20_WriteFailureIsReturned ==
  /\ [](LET r == response
        IN (r.handler = "generate" /\ r.gens = 1 /\ callOpenAI(r.provider).kind = "ok")
             => \/ /\ r.status = 200
                   /\ StoredRows(r) = {EntryOf(r.req, callOpenAI(r.provider).output)}
                \/ /\ SaveFailed(r)
                   /\ r.body = NoBody
                   /\ r.gens = 1 /\ r.writes = 1
                   /\ StoredRows(r) = r.prior)
  /\ [][\A i \in Slots : (Returned(i) /\ SaveFailed(response')) => entries' = entries]_vars

C20_Witness ==
  LET r == response
  IN /\ SaveFailed(r) /\ r.req.refresh
     /\ callOpenAI(r.provider) = GenResult("ok", <<"a">>)
     /\ \E old \in r.prior : old.output # <<"a">>
     /\ StoredRows(r) = r.prior

\* The X-API-Key of the answered request is absent or is not the secret the
\* process was configured with.
BadSecret(r) == r.handler # "none" /\ (r.key = "" \/ r.key # serviceAPIKey)

\* C15: every /generate or /code request whose X-API-Key is absent or differs
\* from the configured secret is answered 401 with no store read, no store
\* write and no provider call, and the configured secret is not empty while
\* requests are served.
C15_BadSecretRejectedBeforeCore ==
  LET r == response
  IN /\ r.handler # "none" => serviceAPIKey # ""
     /\ BadSecret(r) =>
          /\ r.status = 401
          /\ r.reads = 0
          /\ r.gens = 0
          /\ r.writes = 0

----------------------------------------------------------------------------
(* Properties of callOpenAI, under SpecAdapter                             *)

\* The element callOpenAI reads is not in the decoded response.
PositionAbsent(out) ==
  \/ Len(out) < OutputIndex + 1
  \/ Len(out[OutputIndex + 1]) < ContentIndex + 1

\* C8: for every body that decodes but lacks the element callOpenAI reads,
\* callOpenAI returns the raw body and no error.
C8_AbsentPositionFallsBackToRaw ==
  (probe.called /\ ~probe.response.transportErr /\ probe.response.decodes
     /\ PositionAbsent(probe.response.output))
    => probe.result = GenResult("ok", probe.response.raw)

\* C9: for every body that decodes and whose first output item has a
\* content block, callOpenAI returns the trimmed text of the first output
\* item's first content block.
C9_FirstItemFirstBlock ==
  (probe.called /\ ~probe.response.transportErr /\ probe.response.decodes
     /\ Len(probe.response.output) >= 1 /\ Len(probe.response.output[1]) >= 1)
    => probe.result = GenResult("ok", TrimSpace(probe.response.output[1][1]))

====
